---- MODULE Spec2Model ----
(***************************************************************************)
(* Model of Parsing_script.py: the dispatcher parse_document, the eight    *)
(* parse_* strategies, the HAS_* capability flags computed at import time  *)
(* and the logging calls, as a state machine that steps through one call   *)
(* of parse_document at a time.                                            *)
(*                                                                         *)
(* Text is a sequence of one-character strings, so that strip, join,       *)
(* lower and decoding are computed character by character.  A Python       *)
(* value is a record tagged by t; None is [t |-> "None"].                  *)
(***************************************************************************)
EXTENDS Integers, Sequences, FiniteSets, TLC

VARIABLES
    caps,          \* the HAS_* flags set by the guarded imports
    pc,            \* position of control inside parse_document and its callee
    filepath,      \* the argument of the current call
    file,          \* the file-system entry the argument names
    extension,     \* local of parse_document
    content,       \* local of parse_document: what the strategy returned
    text_content,  \* local accumulator of the running strategy
    page_num,      \* loop index of parse_pdf
    log,           \* events the logging module received during this call
    handles,       \* number of file objects currently open
    opens,         \* number of times the file was opened during this call
    outcome,       \* how the last call ended: "none", "returned", "raised"
    io,            \* what each open() of this call did, in order
    first          \* the call the caller kept the result of, NoCall before

vars == <<caps, pc, filepath, file, extension, content, text_content,
          page_num, log, handles, opens, outcome, io, first>>

(***************************************************************************)
(* Bounds of the model.                                                    *)
(***************************************************************************)
MaxLen == 2        \* longest byte content of a text file
MaxPages == 3      \* most pages of a portable document
MaxNodes == 2      \* most elements of a hypertext body

(***************************************************************************)
(* Text helpers.                                                           *)
(***************************************************************************)
SeqsUpTo(S, n) == UNION {[1..k -> S] : k \in 0..n}

Upper == <<"A","B","C","D","E","F","G","H","I","J","K","L","M",
           "N","O","P","Q","R","S","T","U","V","W","X","Y","Z">>

Lower == <<"a","b","c","d","e","f","g","h","i","j","k","l","m",
           "n","o","p","q","r","s","t","u","v","w","x","y","z">>

LowerChar(c) ==
    IF \E i \in DOMAIN Upper : Upper[i] = c
    THEN Lower[CHOOSE i \in DOMAIN Upper : Upper[i] = c]
    ELSE c

\* str.lower()
lower(s) == [i \in DOMAIN s |-> LowerChar(s[i])]

IsSpace(c) == c \in {" ", "\n", "\r", "\t"}

RECURSIVE lstrip(_)
lstrip(s) == IF s # <<>> /\ IsSpace(Head(s)) THEN lstrip(Tail(s)) ELSE s

RECURSIVE rstrip(_)
rstrip(s) ==
    IF s # <<>> /\ IsSpace(s[Len(s)]) THEN rstrip(SubSeq(s, 1, Len(s) - 1)) ELSE s

\* str.strip()
strip(s) == rstrip(lstrip(s))

\* sep.join(parts)
RECURSIVE join(_, _)
join(sep, parts) ==
    IF parts = <<>> THEN <<>>
    ELSE IF Len(parts) = 1 THEN parts[1]
    ELSE parts[1] \o sep \o join(sep, Tail(parts))

\* [x for x in s if keep(x)]
RECURSIVE SelectNonEmpty(_)
SelectNonEmpty(parts) ==
    IF parts = <<>> THEN <<>>
    ELSE IF Head(parts) # <<>> THEN <<Head(parts)>> \o SelectNonEmpty(Tail(parts))
    ELSE SelectNonEmpty(Tail(parts))

\* str.rfind(c): the last index of c in s, 0 when absent (Python's -1)
rfind(s, c) ==
    IF \E i \in DOMAIN s : s[i] = c
    THEN CHOOSE i \in DOMAIN s : s[i] = c /\ \A j \in DOMAIN s : s[j] = c => j <= i
    ELSE 0

\* os.path.splitext(p)[1]: the suffix from the last dot of the last path
\* component, empty when that component has no dot or only leading dots.
splitext(p) ==
    LET sepIndex == rfind(p, "/")
        dotIndex == rfind(p, ".")
    IN  IF dotIndex > sepIndex
           /\ \E i \in (sepIndex + 1)..(dotIndex - 1) : p[i] # "."
        THEN SubSeq(p, dotIndex, Len(p))
        ELSE <<>>

(***************************************************************************)
(* Python values and exceptions.                                           *)
(***************************************************************************)
PyNone == [t |-> "None"]
PyStr(s) == [t |-> "str", v |-> s]
PyList(l) == [t |-> "list", v |-> l]
PyDict(d) == [t |-> "dict", v |-> d]

\* The base class of each exception class the strategies can meet.
Parent ==
    [FileNotFoundError |-> "OSError", PermissionError |-> "OSError",
     OSError |-> "Exception",
     UnicodeDecodeError |-> "ValueError", JSONDecodeError |-> "ValueError",
     ValueError |-> "Exception",
     csvError |-> "Exception",
     ParseError |-> "SyntaxError", SyntaxError |-> "Exception",
     PdfReadError |-> "Exception",
     PackageNotFoundError |-> "Exception",
     KeyError |-> "LookupError", LookupError |-> "Exception",
     ImportError |-> "Exception", MemoryError |-> "Exception",
     BadZipFile |-> "Exception", XLRDError |-> "Exception",
     Exception |-> "BaseException"]

RECURSIVE IsSubclass(_, _)
IsSubclass(c, d) ==
    \/ c = d
    \/ c \in DOMAIN Parent /\ IsSubclass(Parent[c], d)

\* The message of the first except clause that matches exc, or "uncaught".
RECURSIVE Catch(_, _)
Catch(clauses, exc) ==
    IF clauses = <<>> THEN "uncaught"
    ELSE IF \E c \in Head(clauses).classes : IsSubclass(exc, c)
         THEN Head(clauses).msg
         ELSE Catch(Tail(clauses), exc)

Event(level, msg) == [level |-> level, msg |-> msg]

(***************************************************************************)
(* Paths and files the calls are made on.                                  *)
(***************************************************************************)
Ext_txt == <<".", "t", "x", "t">>
Ext_csv == <<".", "c", "s", "v">>
Ext_json == <<".", "j", "s", "o", "n">>
Ext_xml == <<".", "x", "m", "l">>
Ext_pdf == <<".", "p", "d", "f">>
Ext_docx == <<".", "d", "o", "c", "x">>
Ext_xlsx == <<".", "x", "l", "s", "x">>
Ext_xls == <<".", "x", "l", "s">>
Ext_html == <<".", "h", "t", "m", "l">>
Ext_htm == <<".", "h", "t", "m">>

Paths ==
    {<<"a">> \o Ext_txt, <<"a", ".", "T", "x", "T">>,
     <<"a">> \o Ext_csv,
     <<"a">> \o Ext_json,
     <<"a">> \o Ext_xml,
     <<"a">> \o Ext_pdf, <<"a", ".", "P", "D", "F">>,
     <<"a">> \o Ext_docx, <<"a", ".", "D", "o", "c", "X">>,
     <<"a">> \o Ext_xlsx, <<"a", ".", "X", "L", "S">>,
     <<"a">> \o Ext_html, <<"a", ".", "H", "t", "m">>,
     <<"a", ".", "x", "y", "z">>,          \* unknown extension
     <<"a">>,                              \* no extension
     Ext_pdf,                              \* a dot file: no extension
     <<"d">> \o Ext_pdf \o <<"/", "a">>,   \* the dot is in the directory
     <<"a", ".", "t", "x", "t", ".">>}     \* the extension is "."

\* What parse_document may be called with: not a string, the empty string,
\* or a path.
Arguments == {PyNone, PyStr(<<>>)} \cup {PyStr(p) : p \in Paths}

BAD == "0xFF"      \* a byte that is not valid UTF-8
ByteAlphabet == {"a", "\n", "\r", BAD}

TextFiles == {[kind |-> "txt", bytes |-> b] : b \in SeqsUpTo(ByteAlphabet, MaxLen)}

CsvRows == {<<>>, <<<<"ColA", "ColB">>>>,
            <<<<"ColA", "ColB">>, <<"Data1", "10">>, <<"Data2", "20">>>>}
\* error: what the reader raises once the rows before it have been read
CsvFiles == {[kind |-> "csv", rows |-> r, error |-> e] :
                r \in CsvRows, e \in {"none", "csvError", "UnicodeDecodeError"}}

JNull == [t |-> "null"]
JFalse == [t |-> "false"]
JTrue == [t |-> "true"]
JNum(n) == [t |-> "number", v |-> n]
JStr(s) == [t |-> "string", v |-> s]
JArr(a) == [t |-> "array", v |-> a]
JObj(o) == [t |-> "object", v |-> o]
JsonValues ==
    {JNull, JFalse, JTrue, JNum(0), JNum(1), JStr(<<>>), JStr(<<"v">>),
     JArr(<<>>), JArr(<<JNull>>), JObj(<<>>),
     JObj(<<[k |-> "key", v |-> JStr(<<"v">>)],
            [k |-> "list", v |-> JArr(<<JNum(1), JNull, JTrue>>)]>>)}
JsonFiles ==
    {[kind |-> "json", error |-> "none", doc |-> d] : d \in JsonValues}
    \cup {[kind |-> "json", error |-> e, doc |-> JNull] :
             e \in {"JSONDecodeError", "UnicodeDecodeError"}}

\* An element of a markup tree: its text (before the first child), its
\* children, and its tail (the text after its end tag, inside its parent).
Elem(text, children, tail) == [text |-> text, children |-> children, tail |-> tail]
XmlTexts == {<<>>, <<" ">>, <<" ", "x">>}
XmlTails == {<<>>, <<" ">>, <<"z", " ">>}
XmlTrees ==
    {Elem(t, <<>>, <<>>) : t \in XmlTexts}
    \cup {Elem(t, <<Elem(u, <<>>, w)>>, <<>>) : t \in XmlTexts, u \in XmlTexts, w \in XmlTails}
    \cup {Elem(<<>>, <<Elem(<<"1">>, <<>>, <<>>), Elem(<<"2">>, <<>>, <<>>)>>, <<>>),
          Elem(<<"x">>, <<Elem(<<>>, <<Elem(<<"y">>, <<>>, <<"z">>)>>, <<"w">>)>>, <<>>)}
XmlFiles ==
    {[kind |-> "xml", error |-> "none", root |-> r] : r \in XmlTrees}
    \cup {[kind |-> "xml", error |-> "ParseError", root |-> Elem(<<>>, <<>>, <<>>)]}

\* A page either raises when its text is extracted or yields text.
PageTexts == {<<>>, <<"a">>, <<" ", "b">>}
Pages == {[raises |-> TRUE, text |-> <<>>]} \cup {[raises |-> FALSE, text |-> t] : t \in PageTexts}
PdfFiles ==
    {[kind |-> "pdf", error |-> "none", pages |-> p] : p \in SeqsUpTo(Pages, MaxPages)}
    \cup {[kind |-> "pdf", error |-> e, pages |-> <<>>] : e \in {"PdfReadError", "ValueError"}}

DocxFiles ==
    {[kind |-> "docx", error |-> "none", paragraphs |-> p] :
        p \in {<<>>, <<<<"p">>>>, <<<<"p">>, <<>>, <<"q">>>>}}
    \cup {[kind |-> "docx", error |-> "PackageNotFoundError", paragraphs |-> <<>>]}

\* container: the format the bytes are really in, whatever the name says
ExcelFiles ==
    {[kind |-> "excel", error |-> "none", container |-> c, sheets |-> s] :
        c \in {"xlsx", "xls"}, s \in {<<>>, <<[k |-> "Sheet1", v |-> <<<<"1">>>>]>>}}
    \cup {[kind |-> "excel", error |-> e, container |-> "xlsx", sheets |-> <<>>] :
             e \in {"ValueError", "MemoryError", "OSError"}}

HtmlNodes == {[tag |-> "p", text |-> <<"H">>], [tag |-> "p", text |-> <<" ">>],
              [tag |-> "script", text |-> <<"s">>], [tag |-> "style", text |-> <<"c">>]}
HtmlFiles ==
    {[kind |-> "html", error |-> "none", nodes |-> n] : n \in SeqsUpTo(HtmlNodes, MaxNodes)}
    \cup {[kind |-> "html", error |-> "UnicodeDecodeError", nodes |-> <<>>]}

\* Files of an extension the dispatcher does not know hold any content.
OtherFiles ==
    {[kind |-> "txt", bytes |-> <<"a">>], [kind |-> "json", error |-> "none", doc |-> JNull],
     [kind |-> "pdf", error |-> "none", pages |-> <<[raises |-> FALSE, text |-> <<"a">>]>>],
     [kind |-> "xml", error |-> "ParseError", root |-> Elem(<<>>, <<>>, <<>>)]}

NoData == [kind |-> "none"]

\* The content a regular file of path p can hold.
ContentsFor(p) ==
    LET e == lower(splitext(p))
    IN  IF e = Ext_txt THEN TextFiles
        ELSE IF e = Ext_csv THEN CsvFiles
        ELSE IF e = Ext_json THEN JsonFiles
        ELSE IF e = Ext_xml THEN XmlFiles
        ELSE IF e = Ext_pdf THEN PdfFiles
        ELSE IF e = Ext_docx THEN DocxFiles
        ELSE IF e \in {Ext_xlsx, Ext_xls} THEN ExcelFiles
        ELSE IF e \in {Ext_html, Ext_htm} THEN HtmlFiles
        ELSE OtherFiles

\* The file-system entries a path can name at the time of the call.
EntriesFor(arg) ==
    IF arg.t = "str" /\ arg.v # <<>>
    THEN {[entry |-> "missing", data |-> NoData], [entry |-> "dir", data |-> NoData]}
         \cup {[entry |-> "file", data |-> d] : d \in ContentsFor(arg.v)}
    ELSE {[entry |-> "missing", data |-> NoData]}

\* What open() can do once validation has passed: succeed, or fail because
\* the file vanished or may not be read.
OpenResults == {"ok", "FileNotFoundError", "PermissionError"}

(***************************************************************************)
(* The capability flags, lines 55-88, and the state before the first call. *)
(***************************************************************************)
\* No call has been kept yet.  between: a later call has ended since.
NoCall == [arg |-> PyNone, between |-> FALSE, kept |-> FALSE]

Capabilities == [HAS_PYPDF2 : BOOLEAN, HAS_DOCX : BOOLEAN, HAS_PANDAS : BOOLEAN, HAS_BS4 : BOOLEAN]

Init ==
    /\ caps \in Capabilities
    /\ pc = "idle"
    /\ filepath = PyNone
    /\ file = [entry |-> "missing", data |-> NoData]
    /\ extension = <<>>
    /\ content = PyNone
    /\ text_content = <<>>
    /\ page_num = 0
    /\ log = <<>>
    /\ handles = 0
    /\ opens = 0
    /\ outcome = "none"
    /\ io = <<>>
    /\ first = NoCall

(***************************************************************************)
(* parse_document, lines 336-388.                                          *)
(***************************************************************************)
\* The caller invokes parse_document(arg).
Call(arg, f) ==
    /\ pc = "idle"
    /\ pc' = "validating"
    /\ filepath' = arg
    /\ file' = f
    /\ extension' = <<>>
    /\ content' = PyNone
    /\ text_content' = <<>>
    /\ page_num' = 0
    /\ log' = <<>>
    /\ opens' = 0
    /\ outcome' = "none"
    /\ io' = <<>>
    /\ UNCHANGED <<caps, handles, first>>

\* return value: the call is over
Return(value, events) ==
    /\ pc' = "done"
    /\ content' = value
    /\ log' = log \o events
    /\ outcome' = "returned"

\* Validate without the os.path.isfile test of lines 354-356.
ValidateWithoutIsFile ==
    /\ pc = "validating"
    /\ IF filepath.t # "str" \/ filepath.v = <<>>
       THEN Return(PyNone, <<Event("error", "Invalid filepath provided.")>>)
       ELSE IF file.entry = "missing"
       THEN Return(PyNone, <<Event("error", "File does not exist")>>)
       ELSE /\ pc' = "detecting"
            /\ UNCHANGED <<content, log, outcome>>
    /\ UNCHANGED <<first, io, caps, filepath, file, extension, text_content, page_num, handles, opens>>

\* lines 347-356
Validate ==
    /\ pc = "validating"
    /\ IF filepath.t # "str" \/ filepath.v = <<>>
       THEN Return(PyNone, <<Event("error", "Invalid filepath provided.")>>)
       ELSE IF file.entry = "missing"
       THEN Return(PyNone, <<Event("error", "File does not exist")>>)
       ELSE IF file.entry # "file"
       THEN Return(PyNone, <<Event("error", "Path is not a file")>>)
       ELSE /\ pc' = "detecting"
            /\ UNCHANGED <<content, log, outcome>>
    /\ UNCHANGED <<first, io, caps, filepath, file, extension, text_content, page_num, handles, opens>>

\* lines 358-363
Detect ==
    /\ pc = "detecting"
    /\ extension' = lower(splitext(filepath.v))
    /\ log' = Append(log, Event("info", "Attempting to parse file"))
    /\ content' = PyNone
    /\ pc' = "dispatch"
    /\ UNCHANGED <<first, io, caps, filepath, file, text_content, page_num, handles, opens, outcome>>

\* StrategyOf with the text strategy as the fallback of the chain.
StrategyOfDefaultTxt(ext) ==
    IF ext = Ext_csv THEN "parse_csv"
    ELSE IF ext = Ext_json THEN "parse_json"
    ELSE IF ext = Ext_xml THEN "parse_xml"
    ELSE IF ext = Ext_pdf THEN "parse_pdf"
    ELSE IF ext = Ext_docx THEN "parse_docx"
    ELSE IF ext \in {Ext_xlsx, Ext_xls} THEN "parse_excel"
    ELSE IF ext \in {Ext_html, Ext_htm} THEN "parse_html"
    ELSE "parse_txt"

\* lines 364-381: the strategy chosen for an extension
StrategyOf(ext) ==
    IF ext = Ext_txt THEN "parse_txt"
    ELSE IF ext = Ext_csv THEN "parse_csv"
    ELSE IF ext = Ext_json THEN "parse_json"
    ELSE IF ext = Ext_xml THEN "parse_xml"
    ELSE IF ext = Ext_pdf THEN "parse_pdf"
    ELSE IF ext = Ext_docx THEN "parse_docx"
    ELSE IF ext \in {Ext_xlsx, Ext_xls} THEN "parse_excel"
    ELSE IF ext \in {Ext_html, Ext_htm} THEN "parse_html"
    ELSE "unsupported"

\* lines 364-381
Dispatch ==
    /\ pc = "dispatch"
    /\ IF StrategyOf(extension) = "unsupported"
       THEN /\ log' = Append(log, Event("warning", "Unsupported file format"))
            /\ pc' = "finish"
       ELSE /\ pc' = StrategyOf(extension)
            /\ UNCHANGED log
    /\ UNCHANGED <<first, io, caps, filepath, file, extension, content, text_content,
                   page_num, handles, opens, outcome>>

\* lines 383-388
Finish ==
    /\ pc = "finish"
    /\ IF content # PyNone
       THEN Return(content, <<Event("info", "Finished parsing")>>)
       ELSE Return(content, <<Event("error", "Failed to parse")>>)
    /\ UNCHANGED <<first, io, caps, filepath, file, extension, text_content, page_num, handles, opens>>

\* The strategy returns value to parse_document (content = parse_x(filepath)).
StrategyReturns(value, events) ==
    /\ pc' = "finish"
    /\ content' = value
    /\ log' = log \o events
    /\ outcome' = outcome

\* An exception exc raised inside the try of a strategy meets its except
\* clauses: the matching clause logs an error and the strategy returns None;
\* with no matching clause the exception leaves parse_document.
Raise(clauses, exc, before) ==
    IF Catch(clauses, exc) = "uncaught"
    THEN /\ pc' = "done"
         /\ outcome' = "raised"
         /\ log' = log \o before
         /\ content' = content
    ELSE StrategyReturns(PyNone, before \o <<Event("error", Catch(clauses, exc))>>)

\* WithExit that closes the file only when the block ends normally.
WithExitOnlyOnSuccess(open_handles, raised) ==
    IF raised THEN open_handles ELSE open_handles - 1

\* Leaving a with block closes the file object it opened, whether the block
\* ends normally or by an exception.
WithExit(open_handles, raised) == open_handles - 1

\* open(filepath, ...) succeeded: one more file object is open
Opened(next) ==
    /\ pc' = next
    /\ handles' = handles + 1
    /\ opens' = opens + 1
    /\ io' = Append(io, "ok")
    /\ UNCHANGED <<content, log, outcome>>

(***************************************************************************)
(* parse_txt, lines 96-121.                                                *)
(***************************************************************************)
TxtClauses ==
    <<[classes |-> {"FileNotFoundError"}, msg |-> "File not found"],
      [classes |-> {"OSError"}, msg |-> "IOError reading TXT file"],
      [classes |-> {"Exception"}, msg |-> "Unexpected error parsing TXT file"]>>

\* Text mode with newline=None: "\r\n" and "\r" are read as "\n".
RECURSIVE UniversalNewlines(_)
UniversalNewlines(s) ==
    IF s = <<>> THEN <<>>
    ELSE IF Head(s) = "\r"
         THEN IF Len(s) >= 2 /\ s[2] = "\n"
              THEN <<"\n">> \o UniversalNewlines(Tail(Tail(s)))
              ELSE <<"\n">> \o UniversalNewlines(Tail(s))
         ELSE <<Head(s)>> \o UniversalNewlines(Tail(s))

\* errors='strict': a byte that is not valid raises UnicodeDecodeError
DecodeFails(bytes) == \E i \in DOMAIN bytes : bytes[i] = BAD

\* errors='ignore': a byte that is not valid is left out
RECURSIVE DecodeIgnore(_)
DecodeIgnore(bytes) ==
    IF bytes = <<>> THEN <<>>
    ELSE IF Head(bytes) = BAD THEN DecodeIgnore(Tail(bytes))
    ELSE <<Head(bytes)>> \o DecodeIgnore(Tail(bytes))

\* f.read() of a file opened with encoding='utf-8'
ReadStrict(bytes) == UniversalNewlines(bytes)

\* f.read() of a file opened with errors='ignore'
ReadIgnore(bytes) == UniversalNewlines(DecodeIgnore(bytes))

\* line 104, open(filepath, 'r', encoding='utf-8')
ParseTxtOpen ==
    /\ pc = "parse_txt"
    /\ \E r \in OpenResults :
          IF r = "ok"
          THEN Opened("txt_read")
          ELSE Raise(TxtClauses, r, <<>>) /\ UNCHANGED <<handles, opens>> /\ io' = Append(io, r)
    /\ UNCHANGED <<first, caps, filepath, file, extension, text_content, page_num>>

\* ParseTxtRead without the inner except UnicodeDecodeError: the decoding
\* failure goes to the clauses of the outer try.
ParseTxtReadWithoutRetry ==
    /\ pc = "txt_read"
    /\ IF DecodeFails(file.data.bytes)
       THEN /\ handles' = WithExit(handles, TRUE)
            /\ Raise(TxtClauses, "UnicodeDecodeError", <<>>)
       ELSE /\ handles' = WithExit(handles, FALSE)
            /\ StrategyReturns(PyStr(ReadStrict(file.data.bytes)),
                               <<Event("info", "Successfully parsed TXT")>>)
    /\ UNCHANGED <<first, io, caps, filepath, file, extension, text_content, page_num, opens>>

\* lines 105-107 and 110-114
ParseTxtRead ==
    /\ pc = "txt_read"
    /\ IF DecodeFails(file.data.bytes)
       THEN /\ handles' = WithExit(handles, TRUE)
            /\ log' = Append(log, Event("warning", "UTF-8 decoding failed"))
            /\ pc' = "txt_retry"
            /\ UNCHANGED <<content, outcome>>
       ELSE /\ handles' = WithExit(handles, FALSE)
            /\ StrategyReturns(PyStr(ReadStrict(file.data.bytes)),
                               <<Event("info", "Successfully parsed TXT")>>)
    /\ UNCHANGED <<first, io, caps, filepath, file, extension, text_content, page_num, opens>>

\* line 108, open(filepath, 'r', encoding=sys.getdefaultencoding(), errors='ignore')
ParseTxtRetryOpen ==
    /\ pc = "txt_retry"
    /\ \E r \in OpenResults :
          IF r = "ok"
          THEN Opened("txt_retry_read")
          ELSE Raise(TxtClauses, r, <<>>) /\ UNCHANGED <<handles, opens>> /\ io' = Append(io, r)
    /\ UNCHANGED <<first, caps, filepath, file, extension, text_content, page_num>>

\* lines 109-114
ParseTxtRetryRead ==
    /\ pc = "txt_retry_read"
    /\ handles' = WithExit(handles, FALSE)
    /\ StrategyReturns(PyStr(ReadIgnore(file.data.bytes)),
                       <<Event("info", "Successfully parsed TXT")>>)
    /\ UNCHANGED <<first, io, caps, filepath, file, extension, text_content, page_num, opens>>

(***************************************************************************)
(* parse_csv, lines 123-154.                                               *)
(***************************************************************************)
\* CsvClauses without the last clause, except Exception.
CsvClausesWithoutCatchAll ==
    <<[classes |-> {"FileNotFoundError"}, msg |-> "File not found"],
      [classes |-> {"csvError"}, msg |-> "CSV parsing error in file"],
      [classes |-> {"OSError"}, msg |-> "IOError reading CSV file"]>>

CsvClauses ==
    <<[classes |-> {"FileNotFoundError"}, msg |-> "File not found"],
      [classes |-> {"csvError"}, msg |-> "CSV parsing error in file"],
      [classes |-> {"OSError"}, msg |-> "IOError reading CSV file"],
      [classes |-> {"Exception"}, msg |-> "Unexpected error parsing CSV file"]>>

\* line 130
ParseCsvOpen ==
    /\ pc = "parse_csv"
    /\ \E r \in OpenResults :
          IF r = "ok"
          THEN Opened("csv_read")
          ELSE Raise(CsvClauses, r, <<>>) /\ UNCHANGED <<handles, opens>> /\ io' = Append(io, r)
    /\ UNCHANGED <<first, caps, filepath, file, extension, text_content, page_num>>

\* lines 133-145
ParseCsvRead ==
    /\ pc = "csv_read"
    /\ IF file.data.error # "none"
       THEN /\ handles' = WithExit(handles, TRUE)
            /\ Raise(CsvClauses, file.data.error, <<>>)
       ELSE /\ handles' = WithExit(handles, FALSE)
            /\ StrategyReturns(PyList(file.data.rows),
                               <<Event("info", "Successfully parsed CSV")>>)
    /\ UNCHANGED <<first, io, caps, filepath, file, extension, text_content, page_num, opens>>

(***************************************************************************)
(* parse_json, lines 156-177.                                              *)
(***************************************************************************)
JsonClauses ==
    <<[classes |-> {"FileNotFoundError"}, msg |-> "File not found"],
      [classes |-> {"JSONDecodeError"}, msg |-> "Invalid JSON format"],
      [classes |-> {"OSError"}, msg |-> "IOError reading JSON file"],
      [classes |-> {"Exception"}, msg |-> "Unexpected error parsing JSON file"]>>

\* json.load: null is None, false and true are bool, a number is an int,
\* a string is a str, an array is a list and an object is a dict.
RECURSIVE json_load(_)
json_load(d) ==
    IF d.t = "null" THEN PyNone
    ELSE IF d.t = "false" THEN [t |-> "bool", v |-> FALSE]
    ELSE IF d.t = "true" THEN [t |-> "bool", v |-> TRUE]
    ELSE IF d.t = "number" THEN [t |-> "int", v |-> d.v]
    ELSE IF d.t = "string" THEN PyStr(d.v)
    ELSE IF d.t = "array" THEN PyList([i \in DOMAIN d.v |-> json_load(d.v[i])])
    ELSE PyDict([i \in DOMAIN d.v |-> [k |-> d.v[i].k, v |-> json_load(d.v[i].v)]])

\* line 162
ParseJsonOpen ==
    /\ pc = "parse_json"
    /\ \E r \in OpenResults :
          IF r = "ok"
          THEN Opened("json_load")
          ELSE Raise(JsonClauses, r, <<>>) /\ UNCHANGED <<handles, opens>> /\ io' = Append(io, r)
    /\ UNCHANGED <<first, caps, filepath, file, extension, text_content, page_num>>

\* lines 163-168
ParseJsonLoad ==
    /\ pc = "json_load"
    /\ IF file.data.error # "none"
       THEN /\ handles' = WithExit(handles, TRUE)
            /\ Raise(JsonClauses, file.data.error, <<>>)
       ELSE /\ handles' = WithExit(handles, FALSE)
            /\ StrategyReturns(json_load(file.data.doc),
                               <<Event("info", "Successfully parsed JSON")>>)
    /\ UNCHANGED <<first, io, caps, filepath, file, extension, text_content, page_num, opens>>

(***************************************************************************)
(* parse_xml, lines 179-203.                                               *)
(***************************************************************************)
XmlClauses ==
    <<[classes |-> {"FileNotFoundError"}, msg |-> "File not found"],
      [classes |-> {"ParseError"}, msg |-> "XML parsing error"],
      [classes |-> {"OSError"}, msg |-> "IOError reading XML file"],
      [classes |-> {"Exception"}, msg |-> "Unexpected error processing XML file"]>>

\* [elem.text for elem in root.iter()]: the text of every element, the
\* element first and then its children from first to last.
RECURSIVE IterTexts(_)
RECURSIVE IterTextsOfAll(_)
IterTexts(elem) == <<elem.text>> \o IterTextsOfAll(elem.children)
IterTextsOfAll(elems) ==
    IF elems = <<>> THEN <<>>
    ELSE IterTexts(Head(elems)) \o IterTextsOfAll(Tail(elems))

\* lines 188-189
XmlText(root) ==
    LET text_parts == SelectNonEmpty(IterTexts(root))
        stripped == [i \in DOMAIN text_parts |-> strip(text_parts[i])]
    IN  join(<<" ">>, SelectNonEmpty(stripped))

\* lines 185-194: ET.parse opens, reads and closes the file itself
ParseXml ==
    /\ pc = "parse_xml"
    /\ \E r \in OpenResults :
          IF r # "ok"
          THEN Raise(XmlClauses, r, <<>>) /\ UNCHANGED opens /\ io' = Append(io, r)
          ELSE /\ opens' = opens + 1
               /\ io' = Append(io, "ok")
               /\ IF file.data.error # "none"
                  THEN Raise(XmlClauses, file.data.error, <<>>)
                  ELSE StrategyReturns(PyStr(XmlText(file.data.root)),
                          <<Event("info", "Successfully parsed XML and extracted text")>>)
    /\ UNCHANGED <<first, caps, filepath, file, extension, text_content, page_num, handles>>

(***************************************************************************)
(* The check of the optional library at the head of parse_pdf, parse_docx, *)
(* parse_excel and parse_html: lines 210-212, 248-250, 277-279, 306-308.   *)
(***************************************************************************)
\* HasBackend with the test of HAS_PYPDF2 left out.
HasBackendExceptPdf(strategy) ==
    IF strategy = "parse_pdf" THEN TRUE
    ELSE IF strategy = "parse_docx" THEN caps.HAS_DOCX
    ELSE IF strategy = "parse_excel" THEN caps.HAS_PANDAS
    ELSE caps.HAS_BS4

HasBackend(strategy) ==
    IF strategy = "parse_pdf" THEN caps.HAS_PYPDF2
    ELSE IF strategy = "parse_docx" THEN caps.HAS_DOCX
    ELSE IF strategy = "parse_excel" THEN caps.HAS_PANDAS
    ELSE caps.HAS_BS4

MissingMessage(strategy) ==
    IF strategy = "parse_pdf" THEN "PyPDF2 library is required"
    ELSE IF strategy = "parse_docx" THEN "python-docx library is required"
    ELSE IF strategy = "parse_excel" THEN "pandas, openpyxl, xlrd libraries required"
    ELSE "beautifulsoup4 and lxml libraries required"

AfterCheck(strategy) ==
    IF strategy = "parse_pdf" THEN "pdf_open"
    ELSE IF strategy = "parse_docx" THEN "docx_document"
    ELSE IF strategy = "parse_excel" THEN "excel_read"
    ELSE "html_open"

CapabilityCheck ==
    /\ pc \in {"parse_pdf", "parse_docx", "parse_excel", "parse_html"}
    /\ IF ~HasBackend(pc)
       THEN StrategyReturns(PyNone, <<Event("error", MissingMessage(pc))>>)
       ELSE /\ pc' = AfterCheck(pc)
            /\ UNCHANGED <<content, log, outcome>>
    /\ UNCHANGED <<first, io, caps, filepath, file, extension, text_content, page_num, handles, opens>>

(***************************************************************************)
(* parse_pdf, lines 205-241.                                               *)
(***************************************************************************)
PdfClauses ==
    <<[classes |-> {"FileNotFoundError"}, msg |-> "File not found"],
      [classes |-> {"PdfReadError"}, msg |-> "PyPDF2 error reading PDF"],
      [classes |-> {"OSError"}, msg |-> "IOError reading PDF file"],
      [classes |-> {"Exception"}, msg |-> "Unexpected error parsing PDF file"]>>

\* lines 214-215
ParsePdfOpen ==
    /\ pc = "pdf_open"
    /\ text_content' = <<>>
    /\ \E r \in OpenResults :
          IF r = "ok"
          THEN Opened("pdf_reader")
          ELSE Raise(PdfClauses, r, <<>>) /\ UNCHANGED <<handles, opens>> /\ io' = Append(io, r)
    /\ UNCHANGED <<first, caps, filepath, file, extension, page_num>>

\* ParsePdfReader that turns HAS_PYPDF2 off once the library failed on a file.
ParsePdfReaderDisablesBackend ==
    /\ pc = "pdf_reader"
    /\ IF file.data.error # "none"
       THEN /\ handles' = WithExit(handles, TRUE)
            /\ Raise(PdfClauses, file.data.error, <<>>)
            /\ caps' = [caps EXCEPT !.HAS_PYPDF2 = FALSE]
            /\ UNCHANGED page_num
       ELSE /\ page_num' = 0
            /\ log' = Append(log, Event("info", "Reading pages from PDF"))
            /\ pc' = "pdf_page"
            /\ UNCHANGED <<caps, content, outcome, handles>>
    /\ UNCHANGED <<first, io, filepath, file, extension, text_content, opens>>

\* lines 216-218: PyPDF2.PdfReader(f) and len(reader.pages)
ParsePdfReader ==
    /\ pc = "pdf_reader"
    /\ IF file.data.error # "none"
       THEN /\ handles' = WithExit(handles, TRUE)
            /\ Raise(PdfClauses, file.data.error, <<>>)
            /\ UNCHANGED page_num
       ELSE /\ page_num' = 0
            /\ log' = Append(log, Event("info", "Reading pages from PDF"))
            /\ pc' = "pdf_page"
            /\ UNCHANGED <<content, outcome, handles>>
    /\ UNCHANGED <<first, io, caps, filepath, file, extension, text_content, opens>>

\* ParsePdfPage where a page that raises ends the loop.
ParsePdfPageStopsAtError ==
    /\ pc = "pdf_page"
    /\ page_num < Len(file.data.pages)
    /\ LET page == file.data.pages[page_num + 1]
       IN  IF page.raises
           THEN /\ log' = Append(log, Event("warning", "Could not extract text from page"))
                /\ page_num' = Len(file.data.pages)
                /\ UNCHANGED text_content
           ELSE /\ text_content' = IF page.text # <<>>
                                   THEN text_content \o page.text \o <<"\n">>
                                   ELSE text_content
                /\ page_num' = page_num + 1
                /\ UNCHANGED log
    /\ UNCHANGED <<first, io, caps, pc, filepath, file, extension, content, handles, opens, outcome>>

\* lines 219-227: one iteration of the loop over the pages
ParsePdfPage ==
    /\ pc = "pdf_page"
    /\ page_num < Len(file.data.pages)
    /\ LET page == file.data.pages[page_num + 1]
       IN  IF page.raises
           THEN /\ log' = Append(log, Event("warning", "Could not extract text from page"))
                /\ UNCHANGED text_content
           ELSE /\ text_content' = IF page.text # <<>>
                                   THEN text_content \o page.text \o <<"\n">>
                                   ELSE text_content
                /\ UNCHANGED log
    /\ page_num' = page_num + 1
    /\ UNCHANGED <<first, io, caps, pc, filepath, file, extension, content, handles, opens, outcome>>

\* lines 228-232: the loop is over, the with block ends
ParsePdfReturn ==
    /\ pc = "pdf_page"
    /\ page_num = Len(file.data.pages)
    /\ handles' = WithExit(handles, FALSE)
    /\ StrategyReturns(PyStr(strip(text_content)),
                       <<Event("info", "Finished extracting text from PDF")>>)
    /\ UNCHANGED <<first, io, caps, filepath, file, extension, text_content, page_num, opens>>

(***************************************************************************)
(* parse_docx, lines 243-269.                                              *)
(***************************************************************************)
DocxClauses ==
    <<[classes |-> {"FileNotFoundError"}, msg |-> "File not found"],
      [classes |-> {"Exception"}, msg |-> "Error parsing DOCX file"]>>

\* lines 252-264: docx.Document opens, reads and closes the package itself;
\* a path it cannot read as a package raises PackageNotFoundError
ParseDocx ==
    /\ pc = "docx_document"
    /\ \E r \in OpenResults :
          IF r # "ok"
          THEN Raise(DocxClauses, "PackageNotFoundError", <<>>) /\ UNCHANGED opens /\ io' = Append(io, r)
          ELSE /\ opens' = opens + 1
               /\ io' = Append(io, "ok")
               /\ IF file.data.error # "none"
                  THEN Raise(DocxClauses, file.data.error, <<>>)
                  ELSE StrategyReturns(
                          PyStr(join(<<"\n">>, SelectNonEmpty(file.data.paragraphs))),
                          <<Event("info", "Successfully parsed DOCX")>>)
    /\ UNCHANGED <<first, caps, filepath, file, extension, text_content, page_num, handles>>

(***************************************************************************)
(* parse_excel, lines 271-299.                                             *)
(***************************************************************************)
ExcelClauses ==
    <<[classes |-> {"FileNotFoundError"}, msg |-> "File not found"],
      [classes |-> {"KeyError", "ValueError", "ImportError"}, msg |-> "Error parsing Excel file"],
      [classes |-> {"MemoryError"}, msg |-> "MemoryError parsing Excel file"],
      [classes |-> {"Exception"}, msg |-> "Unexpected error parsing Excel file"]>>

\* str.endswith
endswith(s, suffix) ==
    /\ Len(s) >= Len(suffix)
    /\ SubSeq(s, Len(s) - Len(suffix) + 1, Len(s)) = suffix

\* line 282
Engine(path) == IF endswith(lower(path), Ext_xlsx) THEN "openpyxl" ELSE "xlrd"

\* What the engine raises on a container it does not read.
EngineError(engine, container) ==
    IF engine = "openpyxl" /\ container # "xlsx" THEN "BadZipFile"
    ELSE IF engine = "xlrd" /\ container # "xls" THEN "XLRDError"
    ELSE "none"

\* lines 282-290: pd.read_excel opens, reads and closes the file itself
ParseExcel ==
    /\ pc = "excel_read"
    /\ \E r \in OpenResults :
          IF r # "ok"
          THEN Raise(ExcelClauses, r, <<>>) /\ UNCHANGED opens /\ io' = Append(io, r)
          ELSE /\ opens' = opens + 1
               /\ io' = Append(io, "ok")
               /\ IF file.data.error # "none"
                  THEN Raise(ExcelClauses, file.data.error, <<>>)
                  ELSE IF EngineError(Engine(filepath.v), file.data.container) # "none"
                  THEN Raise(ExcelClauses, EngineError(Engine(filepath.v), file.data.container), <<>>)
                  ELSE StrategyReturns(PyDict(file.data.sheets),
                                       <<Event("info", "Successfully parsed Excel")>>)
    /\ UNCHANGED <<first, caps, filepath, file, extension, text_content, page_num, handles>>

(***************************************************************************)
(* parse_html, lines 301-332.                                              *)
(***************************************************************************)
HtmlClauses ==
    <<[classes |-> {"FileNotFoundError"}, msg |-> "File not found"],
      [classes |-> {"OSError"}, msg |-> "IOError reading HTML file"],
      [classes |-> {"Exception"}, msg |-> "Error parsing HTML file"]>>

\* lines 315-316: the script and style elements are removed
RECURSIVE Decompose(_)
Decompose(nodes) ==
    IF nodes = <<>> THEN <<>>
    ELSE IF Head(nodes).tag \in {"script", "style"} THEN Decompose(Tail(nodes))
    ELSE <<Head(nodes)>> \o Decompose(Tail(nodes))

\* line 319, soup.get_text(separator='\n', strip=True): every string is
\* stripped, the empty ones are left out, the rest joined by the separator
get_text(nodes) ==
    join(<<"\n">>, SelectNonEmpty([i \in DOMAIN nodes |-> strip(nodes[i].text)]))

\* line 310
ParseHtmlOpen ==
    /\ pc = "html_open"
    /\ \E r \in OpenResults :
          IF r = "ok"
          THEN Opened("html_soup")
          ELSE Raise(HtmlClauses, r, <<>>) /\ UNCHANGED <<handles, opens>> /\ io' = Append(io, r)
    /\ UNCHANGED <<first, caps, filepath, file, extension, text_content, page_num>>

\* lines 312-325
ParseHtmlSoup ==
    /\ pc = "html_soup"
    /\ IF file.data.error # "none"
       THEN /\ handles' = WithExit(handles, TRUE)
            /\ Raise(HtmlClauses, file.data.error, <<>>)
       ELSE /\ handles' = WithExit(handles, FALSE)
            /\ StrategyReturns(PyStr(get_text(Decompose(file.data.nodes))),
                  <<Event("info", "Successfully parsed HTML and extracted text")>>)
    /\ UNCHANGED <<first, io, caps, filepath, file, extension, text_content, page_num, opens>>

(***************************************************************************)
(* The caller, lines 439-442: one call after the other.                    *)
(***************************************************************************)
\* The caller has taken the result; the locals of the call are gone.
NextFile ==
    /\ pc = "done"
    /\ pc' = "idle"
    /\ filepath' = PyNone
    /\ file' = [entry |-> "missing", data |-> NoData]
    /\ extension' = <<>>
    /\ content' = PyNone
    /\ text_content' = <<>>
    /\ page_num' = 0
    /\ log' = <<>>
    /\ opens' = 0
    /\ outcome' = "none"
    /\ io' = <<>>
    /\ first' = IF first.kept THEN [first EXCEPT !.between = TRUE] ELSE first
    /\ UNCHANGED <<caps, handles>>

Next ==
    \/ pc = "idle" /\ \E arg \in Arguments : \E f \in EntriesFor(arg) : Call(arg, f)
    \/ Validate
    \/ Detect
    \/ Dispatch
    \/ ParseTxtOpen
    \/ ParseTxtRead
    \/ ParseTxtRetryOpen
    \/ ParseTxtRetryRead
    \/ ParseCsvOpen
    \/ ParseCsvRead
    \/ ParseJsonOpen
    \/ ParseJsonLoad
    \/ ParseXml
    \/ CapabilityCheck
    \/ ParsePdfOpen
    \/ ParsePdfReader
    \/ ParsePdfPage
    \/ ParsePdfReturn
    \/ ParseDocx
    \/ ParseExcel
    \/ ParseHtmlOpen
    \/ ParseHtmlSoup
    \/ Finish
    \/ NextFile

Spec == Init /\ [][Next]_vars

(***************************************************************************)
(* The caller that keeps a result, line 441: results[file] = parsed_data.  *)
(* It keeps the result of one call, goes on with other calls and comes     *)
(* back to the same file.                                                  *)
(***************************************************************************)
Remember ==
    /\ pc = "done"
    /\ ~first.kept
    /\ first' = [kept |-> TRUE, between |-> FALSE, arg |-> filepath, file |-> file,
                 io |-> io, content |-> content, log |-> log, outcome |-> outcome]
    /\ pc' = "idle"
    /\ filepath' = PyNone
    /\ file' = [entry |-> "missing", data |-> NoData]
    /\ extension' = <<>>
    /\ content' = PyNone
    /\ text_content' = <<>>
    /\ page_num' = 0
    /\ log' = <<>>
    /\ opens' = 0
    /\ outcome' = "none"
    /\ io' = <<>>
    /\ UNCHANGED <<caps, handles>>

\* The calls of a batch that comes back to its files: one or two files of
\* every format, and arguments that name no regular file.
RepeatFiles ==
    {<<PyNone, [entry |-> "missing", data |-> NoData]>>,
     <<PyStr(<<"a">> \o Ext_pdf), [entry |-> "missing", data |-> NoData]>>,
     <<PyStr(<<"a">> \o Ext_pdf), [entry |-> "dir", data |-> NoData]>>,
     <<PyStr(<<"a", ".", "x", "y", "z">>),
       [entry |-> "file", data |-> [kind |-> "txt", bytes |-> <<"a">>]]>>,
     <<PyStr(<<"a">> \o Ext_txt),
       [entry |-> "file", data |-> [kind |-> "txt", bytes |-> <<"a">>]]>>,
     <<PyStr(<<"a">> \o Ext_txt),
       [entry |-> "file", data |-> [kind |-> "txt", bytes |-> <<"a", BAD>>]]>>,
     <<PyStr(<<"a">> \o Ext_csv),
       [entry |-> "file", data |-> [kind |-> "csv", error |-> "none",
                                    rows |-> <<<<"ColA", "ColB">>>>]]>>,
     <<PyStr(<<"a">> \o Ext_json),
       [entry |-> "file", data |-> [kind |-> "json", error |-> "none", doc |-> JNull]]>>,
     <<PyStr(<<"a">> \o Ext_json),
       [entry |-> "file", data |-> [kind |-> "json", error |-> "none", doc |-> JNum(1)]]>>,
     <<PyStr(<<"a">> \o Ext_xml),
       [entry |-> "file", data |-> [kind |-> "xml", error |-> "none",
                                    root |-> Elem(<<" ", "x">>, <<>>, <<>>)]]>>,
     <<PyStr(<<"a">> \o Ext_pdf),
       [entry |-> "file", data |-> [kind |-> "pdf", error |-> "none",
           pages |-> <<[raises |-> FALSE, text |-> <<"a">>], [raises |-> TRUE, text |-> <<>>]>>]]>>,
     <<PyStr(<<"a">> \o Ext_pdf),
       [entry |-> "file", data |-> [kind |-> "pdf", error |-> "PdfReadError", pages |-> <<>>]]>>,
     <<PyStr(<<"a", ".", "P", "D", "F">>),
       [entry |-> "file", data |-> [kind |-> "pdf", error |-> "none",
           pages |-> <<[raises |-> FALSE, text |-> <<" ", "b">>]>>]]>>,
     <<PyStr(<<"a">> \o Ext_docx),
       [entry |-> "file", data |-> [kind |-> "docx", error |-> "none",
                                    paragraphs |-> <<<<"p">>>>]]>>,
     <<PyStr(<<"a">> \o Ext_xlsx),
       [entry |-> "file", data |-> [kind |-> "excel", error |-> "none",
                                    container |-> "xlsx", sheets |-> <<>>]]>>,
     <<PyStr(<<"a">> \o Ext_html),
       [entry |-> "file", data |-> [kind |-> "html", error |-> "none",
                                    nodes |-> <<[tag |-> "p", text |-> <<"H">>]>>]]>>}

NextRepeat ==
    \/ pc = "idle"
          /\ \E c \in RepeatFiles : c[2] \in EntriesFor(c[1]) /\ Call(c[1], c[2])
    \/ Validate
    \/ Detect
    \/ Dispatch
    \/ ParseTxtOpen
    \/ ParseTxtRead
    \/ ParseTxtRetryOpen
    \/ ParseTxtRetryRead
    \/ ParseCsvOpen
    \/ ParseCsvRead
    \/ ParseJsonOpen
    \/ ParseJsonLoad
    \/ ParseXml
    \/ CapabilityCheck
    \/ ParsePdfOpen
    \/ ParsePdfReader
    \/ ParsePdfPage
    \/ ParsePdfReturn
    \/ ParseDocx
    \/ ParseExcel
    \/ ParseHtmlOpen
    \/ ParseHtmlSoup
    \/ Finish
    \/ NextFile
    \/ Remember

SpecRepeat == Init /\ [][NextRepeat]_vars

TypeOK ==
    /\ caps \in Capabilities
    /\ handles \in 0..1
    /\ opens \in 0..2
    /\ outcome \in {"none", "returned", "raised"}
    /\ page_num \in 0..(MaxPages + 1)

(***************************************************************************)
(* Vocabulary of the properties.  parse_document returns None for every    *)
(* failure; the kind of a failure is the diagnostic the call logged.       *)
(***************************************************************************)
Returned == pc = "done" /\ outcome = "returned"
Failed == Returned /\ content = PyNone
Succeeded == Returned /\ content # PyNone

HasEvent(level, msg) == \E i \in DOMAIN log : log[i] = Event(level, msg)
CountLevel(level) == Cardinality({i \in DOMAIN log : log[i].level = level})

ValidPath == filepath.t = "str" /\ filepath.v # <<>>
RegularFile == ValidPath /\ file.entry = "file"
\* The extension of the argument, lower-cased.
PathExt == lower(splitext(filepath.v))

NotFound == Failed /\ HasEvent("error", "File does not exist")
NotAFile == Failed /\ HasEvent("error", "Path is not a file")
UnsupportedFormat == Failed /\ HasEvent("warning", "Unsupported file format")
BackendMessages ==
    {"PyPDF2 library is required", "python-docx library is required",
     "pandas, openpyxl, xlrd libraries required",
     "beautifulsoup4 and lxml libraries required"}
BackendUnavailable == Failed /\ \E m \in BackendMessages : HasEvent("error", m)

SupportedExts ==
    {Ext_txt, Ext_csv, Ext_json, Ext_xml, Ext_pdf, Ext_docx, Ext_xlsx, Ext_xls,
     Ext_html, Ext_htm}

\* Positions at the head of a strategy that needs an optional library.
CheckPcs == {"parse_pdf", "parse_docx", "parse_excel", "parse_html"}
\* Positions from which a strategy opens or reads the file.
ReadingPcs ==
    {"parse_txt", "txt_read", "txt_retry", "txt_retry_read", "parse_csv", "csv_read",
     "parse_json", "json_load", "parse_xml", "pdf_open", "pdf_reader", "pdf_page",
     "docx_document", "excel_read", "html_open", "html_soup"}
\* Positions inside a with block.
WithPcs ==
    {"txt_read", "txt_retry_read", "csv_read", "json_load", "pdf_reader", "pdf_page",
     "html_soup"}

\* The library the format of extension e needs is there (or it needs none).
BackendPresent(e) ==
    /\ e = Ext_pdf => caps.HAS_PYPDF2
    /\ e = Ext_docx => caps.HAS_DOCX
    /\ e \in {Ext_xlsx, Ext_xls} => caps.HAS_PANDAS
    /\ e \in {Ext_html, Ext_htm} => caps.HAS_BS4

(***************************************************************************)
(* C1: a call of parse_document never lets an exception out: whatever the  *)
(* argument, the entry it names, the libraries present and the content,    *)
(* every call in progress can take its next step, and a call that is over  *)
(* has returned a value, None for a failure.                               *)
(***************************************************************************)
C1_NoFaultEscapes ==
    /\ outcome # "raised"
    /\ pc \notin {"idle", "done"} => ENABLED Next
    /\ pc = "done" =>
          /\ outcome = "returned"
          /\ content.t \in {"None", "str", "list", "dict", "bool", "int"}

\* a csv file that is not UTF-8: only the last clause of parse_csv catches it
C1_Witness ==
    /\ Failed
    /\ RegularFile
    /\ PathExt = Ext_csv
    /\ HasEvent("error", "Unexpected error parsing CSV file")

(***************************************************************************)
(* C2: the stages come in the order validation, detection, capability      *)
(* check, extraction.  Past validation the argument names a regular file;  *)
(* inside a strategy the extension is a known one; where the file is       *)
(* opened or read the library is present; and a path that names nothing    *)
(* ends as NotFound, one that names a directory as NotAFile, with nothing  *)
(* else logged, whatever the extension and the libraries.                  *)
(***************************************************************************)
C2_StagesInOrder ==
    /\ pc \in {"detecting", "dispatch", "finish"} \cup CheckPcs \cup ReadingPcs
          => RegularFile
    /\ pc \in CheckPcs \cup ReadingPcs
          => PathExt \in SupportedExts /\ extension = PathExt
    /\ pc \in ReadingPcs => BackendPresent(PathExt)
    /\ opens > 0 \/ handles > 0
          => RegularFile /\ PathExt \in SupportedExts /\ BackendPresent(PathExt)
    /\ pc = "done" /\ ValidPath /\ file.entry = "missing"
          => NotFound /\ log = <<Event("error", "File does not exist")>>
    /\ pc = "done" /\ ValidPath /\ file.entry = "dir"
          => NotAFile /\ log = <<Event("error", "Path is not a file")>>

\* a directory named like a portable document, the library missing
C2_Witness ==
    /\ pc = "done"
    /\ ValidPath
    /\ file.entry = "dir"
    /\ PathExt = Ext_pdf
    /\ ~caps.HAS_PYPDF2

(***************************************************************************)
(* C3: when the library of a format is missing, a call on a regular file   *)
(* of that format, its extension in any letter case, never opens the file  *)
(* and ends as BackendUnavailable: it returns None, and what it logged is  *)
(* the attempt, the missing library and the failure, nothing else.         *)
(***************************************************************************)
BackendMissing == RegularFile /\ PathExt \in SupportedExts /\ ~BackendPresent(PathExt)

MissingLibrary ==
    IF PathExt = Ext_pdf THEN "PyPDF2 library is required"
    ELSE IF PathExt = Ext_docx THEN "python-docx library is required"
    ELSE IF PathExt \in {Ext_xlsx, Ext_xls} THEN "pandas, openpyxl, xlrd libraries required"
    ELSE "beautifulsoup4 and lxml libraries required"

C3_BackendUnavailable ==
    BackendMissing =>
        /\ opens = 0
        /\ handles = 0
        /\ pc \notin ReadingPcs
        /\ outcome # "raised"
        /\ pc = "done" =>
              /\ BackendUnavailable
              /\ log = <<Event("info", "Attempting to parse file"),
                         Event("error", MissingLibrary),
                         Event("error", "Failed to parse")>>

\* a.PDF with PyPDF2 missing
C3_Witness ==
    /\ pc = "done"
    /\ BackendMissing
    /\ filepath.v = <<"a", ".", "P", "D", "F">>

(***************************************************************************)
(* C4: a call on a regular file whose lower-cased extension is not one of  *)
(* the ten known ones (or that has none) enters no strategy, never opens   *)
(* the file and ends as UnsupportedFormat, whatever the file holds.        *)
(***************************************************************************)
UnknownExtension == RegularFile /\ PathExt \notin SupportedExts

C4_UnsupportedFormat ==
    UnknownExtension =>
        /\ opens = 0
        /\ handles = 0
        /\ pc \notin CheckPcs \cup ReadingPcs
        /\ outcome # "raised"
        /\ pc = "done" => UnsupportedFormat /\ ~NotFound /\ ~NotAFile /\ ~BackendUnavailable

\* a file without extension that holds a portable document
C4_Witness ==
    /\ pc = "done"
    /\ UnknownExtension
    /\ filepath.v = <<"a">>
    /\ file.data.kind = "pdf"

(***************************************************************************)
(* C5: a call that ends as UnsupportedFormat has logged a warning for the  *)
(* unsupported format and no event of level error.                         *)
(***************************************************************************)
C5_UnsupportedIsWarningOnly ==
    pc = "done" /\ UnsupportedFormat =>
        /\ HasEvent("warning", "Unsupported file format")
        /\ CountLevel("error") = 0

(***************************************************************************)
(* C6: a portable document of N pages, opened and read with the library    *)
(* present, where exactly one page raises when its text is extracted.      *)
(***************************************************************************)
RaisingPages(pages) == {i \in DOMAIN pages : pages[i].raises}

OnePageRaises ==
    /\ pc = "done"
    /\ RegularFile
    /\ PathExt = Ext_pdf
    /\ opens = 1
    /\ file.data.error = "none"
    /\ Cardinality(RaisingPages(file.data.pages)) = 1

\* The text of the pages that do not raise, in page order.
RECURSIVE OtherTexts(_)
OtherTexts(pages) ==
    IF pages = <<>> THEN <<>>
    ELSE IF Head(pages).raises THEN OtherTexts(Tail(pages))
    ELSE <<Head(pages).text>> \o OtherTexts(Tail(pages))

RECURSIVE Concatenation(_)
Concatenation(texts) ==
    IF texts = <<>> THEN <<>> ELSE Head(texts) \o Concatenation(Tail(texts))

\* Every text that is not empty, followed by a newline.
RECURSIVE EachWithNewline(_)
EachWithNewline(texts) ==
    IF texts = <<>> THEN <<>>
    ELSE IF Head(texts) = <<>> THEN EachWithNewline(Tail(texts))
    ELSE <<Head(texts) \o <<"\n">>>> \o EachWithNewline(Tail(texts))

(***************************************************************************)
(* C6 as stated: the call succeeds, its text is the concatenation of the   *)
(* text of the other N-1 pages in page order, exactly one warning was      *)
(* logged and the loop went through all N pages.                           *)
(***************************************************************************)
C6_TextIsConcatenation ==
    OnePageRaises =>
        /\ Succeeded
        /\ content = PyStr(Concatenation(OtherTexts(file.data.pages)))
        /\ CountLevel("warning") = 1
        /\ page_num = Len(file.data.pages)

(***************************************************************************)
(* C6 as amended: the call succeeds, its text is the text of the other     *)
(* N-1 pages in page order, each page that has text followed by a newline, *)
(* the whole stripped of leading and trailing whitespace; exactly one      *)
(* warning was logged and the loop went through all N pages.               *)
(***************************************************************************)
C6_TextIsPagesWithNewlinesStripped ==
    OnePageRaises =>
        /\ Succeeded
        /\ content = PyStr(strip(Concatenation(EachWithNewline(OtherTexts(file.data.pages)))))
        /\ CountLevel("warning") = 1
        /\ CountLevel("error") = 0
        /\ page_num = Len(file.data.pages)

\* three pages, the second raises, the first and the third have text
C6_Witness ==
    /\ OnePageRaises
    /\ Len(file.data.pages) = 3
    /\ file.data.pages[2].raises
    /\ file.data.pages[1].text = <<"a">>
    /\ file.data.pages[3].text = <<" ", "b">>

(***************************************************************************)
(* C7: a call on a .json file that holds a valid document, opened and      *)
(* read, is a success whose value is the document, null, false, 0 and the  *)
(* empty string included.                                                  *)
(***************************************************************************)
C7_ValidJsonIsSuccess ==
    /\ pc = "done"
    /\ RegularFile
    /\ PathExt = Ext_json
    /\ opens = 1
    /\ file.data.error = "none"
    => /\ Succeeded
       /\ content = json_load(file.data.doc)
       /\ HasEvent("info", "Finished parsing")
       /\ CountLevel("error") = 0

(***************************************************************************)
(* C8: the text parse_xml returns for a well-formed tree holds every      *)
(* text fragment of the tree that is not blank, the text after a child's   *)
(* end tag included, stripped, in document order, joined by one space.     *)
(***************************************************************************)
\* Every text fragment in document order: the text of the element, then for
\* each child its fragments and its tail.
RECURSIVE Fragments(_)
RECURSIVE FragmentsOfAll(_)
Fragments(elem) == <<elem.text>> \o FragmentsOfAll(elem.children)
FragmentsOfAll(elems) ==
    IF elems = <<>> THEN <<>>
    ELSE Fragments(Head(elems)) \o <<Head(elems).tail>> \o FragmentsOfAll(Tail(elems))

StrippedNonBlank(parts) == SelectNonEmpty([i \in DOMAIN parts |-> strip(parts[i])])

C8_TextOfEveryNode ==
    /\ pc = "done"
    /\ RegularFile
    /\ PathExt = Ext_xml
    /\ opens = 1
    /\ file.data.error = "none"
    => /\ Succeeded
       /\ content = PyStr(join(<<" ">>, StrippedNonBlank(Fragments(file.data.root))))

(***************************************************************************)
(* C9: parse_txt on a regular .txt file.                                   *)
(***************************************************************************)
TxtCall == RegularFile /\ PathExt = Ext_txt

REPLACEMENT == "U+FFFD"

\* The bytes with every invalid one replaced by the replacement character.
InvalidReplaced(bytes) ==
    [i \in DOMAIN bytes |-> IF bytes[i] = BAD THEN REPLACEMENT ELSE bytes[i]]

\* The bytes with every invalid one left out.
InvalidDropped(bytes) ==
    LET Keep(i) == Cardinality({j \in 1..i : bytes[j] # BAD})
        n == Keep(Len(bytes))
    IN  [k \in 1..n |-> bytes[CHOOSE i \in DOMAIN bytes : bytes[i] # BAD /\ Keep(i) = k]]

\* What C9 says but for the text of the retry.
TwoAttempts ==
    /\ TxtCall => opens <= 2
    /\ TxtCall /\ (opens = 2 \/ pc \in {"txt_retry", "txt_retry_read"})
          => /\ DecodeFails(file.data.bytes)
             /\ CountLevel("warning") = 1
    /\ TxtCall /\ pc = "done" /\ ~DecodeFails(file.data.bytes) => opens <= 1
    /\ TxtCall /\ pc = "done" /\ opens = (IF DecodeFails(file.data.bytes) THEN 2 ELSE 1)
          => Succeeded /\ CountLevel("error") = 0
    /\ TxtCall /\ pc = "done" /\ ~Succeeded
          => /\ Failed
             /\ HasEvent("error", "File not found")
                   \/ HasEvent("error", "IOError reading TXT file")
             /\ opens < (IF DecodeFails(file.data.bytes) THEN 2 ELSE 1)

(***************************************************************************)
(* C9 as stated: at most two attempts, the second only after the first     *)
(* failed on decoding, and in it the invalid bytes are replaced; a file    *)
(* that can be opened and read yields a success, and the strategy fails    *)
(* only when open raises an I/O or permission error.                       *)
(***************************************************************************)
C9_RetryReplacesInvalidBytes ==
    /\ TwoAttempts
    /\ TxtCall /\ Succeeded =>
          content = PyStr(UniversalNewlines(InvalidReplaced(file.data.bytes)))

(***************************************************************************)
(* C9 as amended: the same, but in the retry the invalid bytes are left    *)
(* out of the text, not replaced.                                          *)
(***************************************************************************)
C9_RetryDropsInvalidBytes ==
    /\ TwoAttempts
    /\ TxtCall /\ Succeeded =>
          content = PyStr(UniversalNewlines(InvalidDropped(file.data.bytes)))

\* a text file with an invalid byte, read at the second attempt
C9_Witness ==
    /\ TxtCall
    /\ Succeeded
    /\ opens = 2
    /\ file.data.bytes = <<"a", BAD>>
    /\ content = PyStr(<<"a">>)

(***************************************************************************)
(* C10: a file object is open only while control is inside the with block  *)
(* that opened it: none is open between two calls, when a call is over,    *)
(* after a page raised, between the failed decoding and the retry, or      *)
(* after the except clauses of a strategy ran.                             *)
(***************************************************************************)
C10_HandlesReleased == handles = (IF pc \in WithPcs THEN 1 ELSE 0)

\* the portable document could not be read: the with block ended by an exception
C10_Witness ==
    /\ pc = "done"
    /\ opens = 1
    /\ handles = 0
    /\ HasEvent("error", "PyPDF2 error reading PDF")

(***************************************************************************)
(* C11: no step of a call changes a HAS_* flag, and nothing but the flags  *)
(* passes from one call to the next: between two calls no file object is   *)
(* open, and a call on the argument and file of a kept call, the file      *)
(* opening the same way, ends with the content, the diagnostics and the    *)
(* outcome of the kept call, whatever calls were made in between.          *)
(***************************************************************************)
SameCallAsKept ==
    /\ first.kept
    /\ first.arg = filepath
    /\ first.file = file
    /\ first.io = io

C11_CallsAreIndependent ==
    [][/\ caps' = caps
       /\ pc' = "idle" => handles' = 0
       /\ (pc' = "done" /\ SameCallAsKept') =>
             /\ content' = first'.content
             /\ log' = first'.log
             /\ outcome' = first'.outcome]_vars

\* a portable document parsed, a call on another file, the document parsed again
C11_Witness ==
    /\ pc = "done"
    /\ SameCallAsKept
    /\ first.between
    /\ filepath = PyStr(<<"a">> \o Ext_pdf)
    /\ file.entry = "file"
    /\ Succeeded
    /\ content = PyStr(<<"a">>)

====
